---------------------------- MODULE Spec2Model ----------------------------
(***************************************************************************)
(* A model of scripts/prod-check.js: the production readiness check.       *)
(*                                                                         *)
(* main() resolves the environment (hosting CLI, then the .env file when   *)
(* the CLI loaded nothing, then the alias mapping), computes the presence  *)
(* flag of every required variable, dispatches the five probes, joins      *)
(* them with Promise.all and exits 0 or 1.  The top-level handler exits 1  *)
(* when main() rejects.                                                    *)
(*                                                                         *)
(* Strings are sequences of tokens.  A token is one character (" ", "=",   *)
(* "#", a quote, a newline) or an atomic word: a variable name, the words  *)
(* "Error" and "not found" the CLI filter looks for, the words "audit"     *)
(* and "response" the site filter looks for, or a payload letter.  The     *)
(* empty sequence stands for a variable that is unset or set to the empty  *)
(* string: the program only tests truthiness, which does not tell the two  *)
(* apart.                                                                  *)
(***************************************************************************)
EXTENDS Integers, Sequences, FiniteSets, TLC

VARIABLES
    pc,            \* where main() stands
    env0,          \* process.env as it was when the process started
    env,           \* process.env
    isLinked,      \* loadEnvFromNetlify: let isLinked
    idx,           \* loadEnvFromNetlify: position of the for loop in REQUIRED_VARS
    loadedCount,   \* loadEnvFromNetlify: let loadedCount
    cliWrote,      \* the keys the CLI source has written (history)
    envBeforeMap,  \* process.env as the two sources left it (history)
    netlifyLoaded, \* main: const netlifyLoaded
    fileSeen,      \* what loadEnvFromFile found: "not_called", "absent", "unreadable" or a file
    envStatus,     \* main: const envStatus
    probe,         \* the state of each probe's promise
    threw,         \* main() rejected
    exitCode       \* the code given to process.exit, -1 before

vars == <<pc, env0, env, isLinked, idx, loadedCount, cliWrote, envBeforeMap,
          netlifyLoaded, fileSeen, envStatus, probe, threw, exitCode>>

---------------------------------------------------------------------------
(* Bounds *)

\* At most this many of the twelve variables are unset or blank at start.
MaxUnset == 2

\* `netlify sites:list` returns at most this many sites.
MaxSites == 2

---------------------------------------------------------------------------
(* Names *)

REQUIRED_VARS ==
    << "OPENAI_API_KEY", "SUPABASE_URL", "SUPABASE_SERVICE_ROLE_KEY",
       "STRIPE_PUBLISHABLE_KEY", "STRIPE_SECRET_KEY", "STRIPE_PRICE_RESPONSE",
       "STRIPE_WEBHOOK_SECRET", "SENDGRID_API_KEY", "SITE_URL", "ENVIRONMENT" >>

Required == { REQUIRED_VARS[i] : i \in 1..Len(REQUIRED_VARS) }

\* The alternative names mapEnvVars reads.
Aliases == { "STRIPE_PUBLIC_KEY", "STRIPE_PRICE_ID" }

Keys == Required \cup Aliases

\* The five probes, in the order main() passes them to Promise.all.
Probes == { "openai", "supabase", "stripe", "sendgrid", "site" }

---------------------------------------------------------------------------
(* Strings *)

Whitespace == { " ", "\n" }

Quotes == { "\"", "'" }

RECURSIVE TrimStart(_)
TrimStart(s) ==
    IF s # << >> /\ Head(s) \in Whitespace THEN TrimStart(Tail(s)) ELSE s

RECURSIVE TrimEnd(_)
TrimEnd(s) ==
    IF s # << >> /\ s[Len(s)] \in Whitespace
    THEN TrimEnd(SubSeq(s, 1, Len(s) - 1))
    ELSE s

\* String.prototype.trim
Trim(s) == TrimEnd(TrimStart(s))

\* String.prototype.includes
Includes(s, t) == \E i \in 1..Len(s) : s[i] = t

\* The position of the first t in s, which includes it.
IndexOf(s, t) == CHOOSE i \in 1..Len(s) : s[i] = t /\ \A j \in 1..(i - 1) : s[j] # t

\* A JavaScript string used as a condition.
Truthy(s) == s # << >>

\* value.replace(/^["']|["']$/g, ''): a leading quote goes, and a trailing
\* quote of what is left goes.
StripQuotes(s) ==
    LET a == IF s # << >> /\ Head(s) \in Quotes THEN Tail(s) ELSE s
    IN  IF a # << >> /\ a[Len(a)] \in Quotes THEN SubSeq(a, 1, Len(a) - 1) ELSE a

---------------------------------------------------------------------------
(* The environment resolver: pure parts *)

\* The value netlify env:get printed is kept when it is not empty and holds
\* neither "Error" nor "not found".
CliValueAccepted(value) ==
    /\ Truthy(value)
    /\ ~Includes(value, "Error")
    /\ ~Includes(value, "not found")
    /\ Len(value) > 0

\* One iteration of the for loop of loadEnvFromNetlify whose execSync
\* returned stdout: the environment after it.
EnvAfterGet(e, varName, stdout) ==
    LET value == Trim(stdout)
    IN  IF CliValueAccepted(value) THEN [e EXCEPT ![varName] = value] ELSE e

\* possibleSites: the sites whose name includes "audit" or "response".
RECURSIVE PossibleSites(_)
PossibleSites(sites) ==
    IF sites = << >> THEN << >>
    ELSE IF Includes(Head(sites), "audit") \/ Includes(Head(sites), "response")
         THEN << Head(sites) >> \o PossibleSites(Tail(sites))
         ELSE PossibleSites(Tail(sites))

\* A line that is assigned whether or not the key is already set.
EnvAfterLine_Overwrite(e, line) ==
    LET trimmed == Trim(line)
    IN  IF trimmed # << >> /\ Head(trimmed) # "#" /\ Includes(trimmed, "=")
        THEN LET i     == IndexOf(trimmed, "=")
                 key   == SubSeq(trimmed, 1, i - 1)
                 value == StripQuotes(SubSeq(trimmed, i + 1, Len(trimmed)))
             IN  IF /\ Truthy(key) /\ Truthy(value)
                    /\ Len(key) = 1 /\ key[1] \in Keys
                 THEN [e EXCEPT ![key[1]] = value]
                 ELSE e
        ELSE e

\* One line of the .env file: the environment after it.  A key that is not
\* one of the twelve names of the model is written to a variable nothing reads.
EnvAfterLine(e, line) ==
    LET trimmed == Trim(line)
    IN  IF trimmed # << >> /\ Head(trimmed) # "#" /\ Includes(trimmed, "=")
        THEN LET i     == IndexOf(trimmed, "=")
                 key   == SubSeq(trimmed, 1, i - 1)
                 value == StripQuotes(SubSeq(trimmed, i + 1, Len(trimmed)))
             IN  IF /\ Truthy(key) /\ Truthy(value)
                    /\ Len(key) = 1 /\ key[1] \in Keys
                    /\ ~Truthy(e[key[1]])
                 THEN [e EXCEPT ![key[1]] = value]
                 ELSE e
        ELSE e

\* loadEnvFromFile on a file that was read: the environment after its lines.
RECURSIVE EnvAfterFile(_, _)
EnvAfterFile(e, lines) ==
    IF lines = << >> THEN e
    ELSE EnvAfterFile(EnvAfterLine(e, Head(lines)), Tail(lines))

\* A mapping that copies the alias whether or not the canonical name is set.
mapEnvVars_NoGuard(e) ==
    LET a == IF Truthy(e["STRIPE_PUBLIC_KEY"])
             THEN [e EXCEPT !["STRIPE_PUBLISHABLE_KEY"] = e["STRIPE_PUBLIC_KEY"]]
             ELSE e
    IN  IF Truthy(a["STRIPE_PRICE_ID"])
        THEN [a EXCEPT !["STRIPE_PRICE_RESPONSE"] = a["STRIPE_PRICE_ID"]]
        ELSE a

\* mapEnvVars: the environment after it.
mapEnvVars(e) ==
    LET a == IF Truthy(e["STRIPE_PUBLIC_KEY"]) /\ ~Truthy(e["STRIPE_PUBLISHABLE_KEY"])
             THEN [e EXCEPT !["STRIPE_PUBLISHABLE_KEY"] = e["STRIPE_PUBLIC_KEY"]]
             ELSE e
    IN  IF Truthy(a["STRIPE_PRICE_ID"]) /\ ~Truthy(a["STRIPE_PRICE_RESPONSE"])
        THEN [a EXCEPT !["STRIPE_PRICE_RESPONSE"] = a["STRIPE_PRICE_ID"]]
        ELSE a

\* logEnvStatus: Boolean(process.env[key] && String(process.env[key]).trim())
Present(value) == Truthy(value) /\ Truthy(Trim(value))

logEnvStatus(e) == [ key \in Required |-> Present(e[key]) ]

---------------------------------------------------------------------------
(* What the outside world may answer *)

\* stdout of `netlify status --json`, parsed: a site id, no site id, or no JSON.
StatusOutputs == { "site_id", "no_site_id", "not_json" }

\* stdout of `netlify env:get NAME`.
EnvGetOutputs ==
    { << "c", "\n" >>, << "\n" >>, << "Error", ":", "c", "\n" >>,
      << "c", " ", "not found", "\n" >> }

\* The names `netlify sites:list --json` may hold.
SiteNames == { << "audit", "-", "x" >>, << "my", "-", "response" >>, << "x" >> }

RECURSIVE SeqsUpTo(_, _)
SeqsUpTo(S, n) ==
    IF n = 0 THEN { << >> }
    ELSE LET shorter == SeqsUpTo(S, n - 1)
         IN  shorter \cup { Append(s, x) : s \in shorter, x \in S }

SiteLists == SeqsUpTo(SiteNames, MaxSites)

KeyLine(key, value) == << key, "=" >> \o value

\* The .env files of the model, by name.
FileNames == { "plain", "mixed", "blank_values", "aliases" }

FileLines(name) ==
    CASE name = "plain" ->
           [ i \in 1..Len(REQUIRED_VARS) |-> KeyLine(REQUIRED_VARS[i], << "f" >>) ]
      [] name = "mixed" ->
           << << "#", " ", "SITE_URL", "=", "g" >>, << >>, << " ", " " >>,
              << "SITE_URL" >>, << "=", "g" >>, << "SITE_URL", " ", "=", " ", "g" >>,
              << "OPENAI_API_KEY", "=" >>, << "ENVIRONMENT", "=", "\"" >> >>
           \o [ i \in 1..Len(REQUIRED_VARS) |->
                  << " " >> \o KeyLine(REQUIRED_VARS[i], << "\"", "f", "=", "f", "\"" >>) ]
           \o << KeyLine("SITE_URL", << "g" >>) >>
      [] name = "blank_values" ->
           [ i \in 1..Len(REQUIRED_VARS) |-> KeyLine(REQUIRED_VARS[i], << "'", " ", "'" >>) ]
      [] name = "aliases" ->
           << KeyLine("STRIPE_PUBLIC_KEY", << "\"", " ", "\"" >>),
              KeyLine("STRIPE_PRICE_ID", << "f" >>) >>

---------------------------------------------------------------------------
(* The probes: pure parts *)

\* What a probe's promise is fulfilled with: { ok: true, ... } or
\* { ok: false, ... }.  The elapsed time and the detail text decide nothing
\* and are left out.
CheckResult(ok) == IF ok THEN "ok" ELSE "failed"

\* A catch block that throws again: the probe's promise is rejected.
ProbeCaught_Rethrow == "rejected"

\* The catch block of every probe returns { ok: false, ms, detail }.
ProbeCaught == CheckResult(FALSE)

\* checkOpenAI: text is res.choices?.[0]?.message?.content || ''
OpenAIOk(text) == Truthy(text) /\ Len(text) > 0

\* checkSupabase: error is the error field of the insert's answer.
SupabaseOk(error) == ~error

\* checkStripe: productObj is null, an object without an id, or one with an id.
StripeOk(productObj) == productObj # "null" /\ productObj = "with_id"

\* checkSendGrid: statusCode is response?.statusCode, 0 when there is none.
SendGridOk(statusCode) == statusCode # 0 /\ statusCode < 400

\* checkSiteUrl
SiteUrlOk(status) == status = 200

\* A verdict that is content with the variables or the probes.
Verdict_Either(status, results) ==
    LET missingKeys       == { k \in Required : ~status[k] }
        allIntegrationsOk == \A p \in Probes : results[p] = "ok"
        allEnvOk          == Cardinality(missingKeys) = 0
    IN  IF allEnvOk \/ allIntegrationsOk THEN 0 ELSE 1

\* main: the exit code, from envStatus and the five results.
Verdict(status, results) ==
    LET missingKeys       == { k \in Required : ~status[k] }
        allIntegrationsOk == \A p \in Probes : results[p] = "ok"
        allEnvOk          == Cardinality(missingKeys) = 0
    IN  IF allEnvOk /\ allIntegrationsOk THEN 0 ELSE 1

---------------------------------------------------------------------------
(* The initial state *)

Blank == << " " >>

Preset == << "p" >>

\* The environments the process may start with: every variable is set,
\* except at most MaxUnset that are unset (or empty), or one that is blank.
StartEnvs ==
    { [ k \in Keys |-> IF k \in unset THEN << >> ELSE Preset ] :
        unset \in { u \in SUBSET Keys : Cardinality(u) <= MaxUnset } }
    \cup { [ k \in Keys |-> IF k = blank THEN Blank ELSE Preset ] : blank \in Keys }

Init ==
    /\ env0 \in StartEnvs
    /\ env = env0
    /\ pc = "status"
    /\ isLinked = FALSE
    /\ idx = 0
    /\ loadedCount = 0
    /\ cliWrote = {}
    /\ envBeforeMap = env0
    /\ netlifyLoaded = FALSE
    /\ fileSeen = "not_called"
    /\ envStatus = [ k \in Required |-> FALSE ]
    /\ probe = [ p \in Probes |-> "idle" ]
    /\ threw = FALSE
    /\ exitCode = -1

---------------------------------------------------------------------------
(* loadEnvFromNetlify *)

\* A main that goes on without the .env file when there is no link.
Linkage_NoFallback(linked) ==
    /\ isLinked' = linked
    /\ IF linked
       THEN /\ pc' = "env_get"
            /\ idx' = 1
            /\ UNCHANGED netlifyLoaded
       ELSE /\ pc' = "map_env"
            /\ netlifyLoaded' = FALSE
            /\ UNCHANGED idx
    /\ UNCHANGED << env0, envBeforeMap, env, loadedCount, cliWrote, fileSeen,
                    envStatus, probe, threw, exitCode >>

\* Lines 68-70 and main's branch on the result: without a link the function
\* returns false and main turns to the .env file; with one the loop starts.
Linkage(linked) ==
    /\ isLinked' = linked
    /\ IF linked
       THEN /\ pc' = "env_get"
            /\ idx' = 1
            /\ UNCHANGED netlifyLoaded
       ELSE /\ pc' = "load_file"
            /\ netlifyLoaded' = FALSE
            /\ UNCHANGED idx
    /\ UNCHANGED << env0, envBeforeMap, env, loadedCount, cliWrote, fileSeen,
                    envStatus, probe, threw, exitCode >>

Goto(label) ==
    /\ pc' = label
    /\ UNCHANGED << env0, envBeforeMap, env, isLinked, idx, loadedCount, cliWrote,
                    netlifyLoaded, fileSeen, envStatus, probe, threw, exitCode >>

\* netlify status --json
NetlifyStatus ==
    /\ pc = "status"
    /\ \/ \E out \in StatusOutputs :
            IF out = "not_json" THEN Goto("git_remote") ELSE Linkage(out = "site_id")
       \/ Goto("git_remote")

\* git remote get-url origin
GitRemote ==
    /\ pc = "git_remote"
    /\ \/ Goto("link_git")
       \/ Linkage(FALSE)

\* netlify link --git
LinkGit ==
    /\ pc = "link_git"
    /\ \/ Linkage(TRUE)
       \/ Goto("sites_list")

\* netlify sites:list --json, and the filter on the names
SitesList ==
    /\ pc = "sites_list"
    /\ \/ \E sites \in SiteLists :
            IF Len(PossibleSites(sites)) = 1 THEN Goto("link_id") ELSE Linkage(FALSE)
       \/ Linkage(FALSE)

\* netlify link --id
LinkId ==
    /\ pc = "link_id"
    /\ \/ Linkage(TRUE)
       \/ Linkage(FALSE)

\* A main that turns to the .env file whatever the CLI source loaded.
LoopStep_AlwaysFile(e, n, w) ==
    /\ env' = e
    /\ loadedCount' = n
    /\ cliWrote' = w
    /\ idx' = idx + 1
    /\ IF idx = Len(REQUIRED_VARS)
       THEN /\ netlifyLoaded' = (n > 0)
            /\ pc' = "load_file"
       ELSE UNCHANGED << pc, netlifyLoaded >>
    /\ UNCHANGED << env0, envBeforeMap, isLinked, fileSeen, envStatus, probe, threw,
                    exitCode >>

\* The end of one iteration of the for loop, and after the last one the
\* return of loadedCount > 0 and main's branch on it.
LoopStep(e, n, w) ==
    /\ env' = e
    /\ loadedCount' = n
    /\ cliWrote' = w
    /\ idx' = idx + 1
    /\ IF idx = Len(REQUIRED_VARS)
       THEN /\ netlifyLoaded' = (n > 0)
            /\ pc' = IF n > 0 THEN "map_env" ELSE "load_file"
       ELSE UNCHANGED << pc, netlifyLoaded >>
    /\ UNCHANGED << env0, envBeforeMap, isLinked, fileSeen, envStatus, probe, threw,
                    exitCode >>

\* One iteration of the for loop: netlify env:get for a variable not yet set.
EnvGet ==
    /\ pc = "env_get"
    /\ LET varName == REQUIRED_VARS[idx]
       IN  \/ /\ Truthy(env[varName])
              /\ LoopStep(env, loadedCount, cliWrote)
           \/ /\ ~Truthy(env[varName])
              /\ \E stdout \in EnvGetOutputs :
                    IF CliValueAccepted(Trim(stdout))
                    THEN LoopStep(EnvAfterGet(env, varName, stdout), loadedCount + 1,
                                  cliWrote \cup { varName })
                    ELSE LoopStep(env, loadedCount, cliWrote)
           \/ /\ ~Truthy(env[varName])
              /\ LoopStep(env, loadedCount, cliWrote)

---------------------------------------------------------------------------
(* main, after loadEnvFromNetlify *)

\* loadEnvFromFile: no file, a file that cannot be read, or a file.
loadEnvFromFile ==
    /\ pc = "load_file"
    /\ \/ /\ fileSeen' = "absent"
          /\ pc' = "map_env"
          /\ UNCHANGED << env, threw >>
       \/ /\ fileSeen' = "unreadable"
          /\ threw' = TRUE
          /\ pc' = "top_catch"
          /\ UNCHANGED env
       \/ \E name \in FileNames :
            /\ fileSeen' = name
            /\ env' = EnvAfterFile(env, FileLines(name))
            /\ pc' = "map_env"
            /\ UNCHANGED threw
    /\ UNCHANGED << env0, envBeforeMap, isLinked, idx, loadedCount, cliWrote,
                    netlifyLoaded, envStatus, probe, exitCode >>

CallMapEnvVars ==
    /\ pc = "map_env"
    /\ env' = mapEnvVars(env)
    /\ envBeforeMap' = env
    /\ pc' = "log_status"
    /\ UNCHANGED << env0, isLinked, idx, loadedCount, cliWrote, netlifyLoaded,
                    fileSeen, envStatus, probe, threw, exitCode >>

CallLogEnvStatus ==
    /\ pc = "log_status"
    /\ envStatus' = logEnvStatus(env)
    /\ pc' = "dispatch"
    /\ UNCHANGED << env0, envBeforeMap, env, isLinked, idx, loadedCount, cliWrote,
                    netlifyLoaded, fileSeen, probe, threw, exitCode >>

\* A main that dispatches the probes before it maps the aliases.
Dispatch_BeforeMapEnvVars ==
    /\ pc \in { "map_env", "dispatch" }
    /\ \A p \in Probes : probe[p] = "idle"
    /\ probe' = [ p \in Probes |-> "pending" ]
    /\ pc' = IF pc = "dispatch" THEN "join" ELSE pc
    /\ UNCHANGED << env0, envBeforeMap, env, isLinked, idx, loadedCount, cliWrote,
                    netlifyLoaded, fileSeen, envStatus, threw, exitCode >>

\* The five calls inside Promise.all([...]): each probe runs to its first await.
Dispatch ==
    /\ pc = "dispatch"
    /\ probe' = [ p \in Probes |-> "pending" ]
    /\ pc' = "join"
    /\ UNCHANGED << env0, envBeforeMap, env, isLinked, idx, loadedCount, cliWrote,
                    netlifyLoaded, fileSeen, envStatus, threw, exitCode >>

\* The promise of probe p becomes r; nothing else changes.
Settle(p, r) ==
    /\ probe' = [ probe EXCEPT ![p] = r ]
    /\ UNCHANGED << pc, env0, envBeforeMap, env, isLinked, idx, loadedCount, cliWrote,
                    netlifyLoaded, fileSeen, envStatus, threw, exitCode >>

checkOpenAI ==
    /\ pc = "join" /\ probe["openai"] = "pending"
    /\ \/ \E text \in { << >>, << "t" >> } : Settle("openai", CheckResult(OpenAIOk(text)))
       \/ Settle("openai", ProbeCaught)

checkSupabase ==
    /\ pc = "join" /\ probe["supabase"] = "pending"
    /\ \/ \E error \in BOOLEAN : Settle("supabase", CheckResult(SupabaseOk(error)))
       \/ Settle("supabase", ProbeCaught)

\* stripe.prices.retrieve: price.product is an id (a second request follows)
\* or the product itself.
checkStripe_price ==
    /\ pc = "join" /\ probe["stripe"] = "pending"
    /\ \/ Settle("stripe", "product_pending")
       \/ \E productObj \in { "null", "without_id", "with_id" } :
            Settle("stripe", CheckResult(StripeOk(productObj)))
       \/ Settle("stripe", ProbeCaught)

\* stripe.products.retrieve
checkStripe_product ==
    /\ pc = "join" /\ probe["stripe"] = "product_pending"
    /\ \/ \E productObj \in { "null", "without_id", "with_id" } :
            Settle("stripe", CheckResult(StripeOk(productObj)))
       \/ Settle("stripe", ProbeCaught)

checkSendGrid ==
    /\ pc = "join" /\ probe["sendgrid"] = "pending"
    /\ \/ \E statusCode \in { 0, 200, 399, 400 } :
            Settle("sendgrid", CheckResult(SendGridOk(statusCode)))
       \/ Settle("sendgrid", ProbeCaught)

checkSiteUrl ==
    /\ pc = "join" /\ probe["site"] = "pending"
    /\ \/ \E status \in { 200, 301, 500 } : Settle("site", CheckResult(SiteUrlOk(status)))
       \/ Settle("site", ProbeCaught)

\* No probe sets a timeout: a request the service never answers leaves the
\* probe's promise pending for ever.
Hang(p) ==
    /\ pc = "join" /\ probe[p] \in { "pending", "product_pending" }
    /\ Settle(p, "hung")

\* await Promise.all(...): main goes on when every promise is fulfilled, or
\* as soon as one is rejected; then the report and the verdict.
Join ==
    /\ pc = "join"
    /\ \/ \E p \in Probes : probe[p] = "rejected"
       \/ \A p \in Probes : probe[p] \in { "ok", "failed" }
    /\ IF \E p \in Probes : probe[p] = "rejected"
       THEN /\ threw' = TRUE
            /\ pc' = "top_catch"
            /\ UNCHANGED exitCode
       ELSE /\ exitCode' = Verdict(envStatus, probe)
            /\ pc' = "exited"
            /\ UNCHANGED threw
    /\ UNCHANGED << env0, envBeforeMap, env, isLinked, idx, loadedCount, cliWrote,
                    netlifyLoaded, fileSeen, envStatus, probe >>

\* A handler that logs the error and exits with code 0.
TopLevelCatch_ExitZero ==
    /\ pc = "top_catch"
    /\ exitCode' = 0
    /\ pc' = "exited"
    /\ UNCHANGED << env0, envBeforeMap, env, isLinked, idx, loadedCount, cliWrote,
                    netlifyLoaded, fileSeen, envStatus, probe, threw >>

\* main().catch(...)
TopLevelCatch ==
    /\ pc = "top_catch"
    /\ exitCode' = 1
    /\ pc' = "exited"
    /\ UNCHANGED << env0, envBeforeMap, env, isLinked, idx, loadedCount, cliWrote,
                    netlifyLoaded, fileSeen, envStatus, probe, threw >>

Next ==
    \/ NetlifyStatus
    \/ GitRemote
    \/ LinkGit
    \/ SitesList
    \/ LinkId
    \/ EnvGet
    \/ loadEnvFromFile
    \/ CallMapEnvVars
    \/ CallLogEnvStatus
    \/ Dispatch
    \/ checkOpenAI
    \/ checkSupabase
    \/ checkStripe_price
    \/ checkStripe_product
    \/ checkSendGrid
    \/ checkSiteUrl
    \/ Join
    \/ TopLevelCatch

Spec == Init /\ [][Next]_vars

\* The same program, with the outside world free to leave a request
\* unanswered, started with at most one variable unset or blank.  A step that can be
\* taken is taken: the event loop runs whatever is ready.
InitLive ==
    /\ Init
    /\ Cardinality({ k \in Keys : env0[k] # Preset }) <= 1

NextLive == Next \/ \E p \in Probes : Hang(p)

LiveSpec == InitLive /\ [][NextLive]_vars /\ WF_vars(NextLive)

---------------------------------------------------------------------------
(* Where main() stands *)

\* The probes have been dispatched.
Dispatched == \E p \in Probes : probe[p] # "idle"

\* loadEnvFromNetlify has returned and, if main called it, so has loadEnvFromFile.
SourcesDone == pc \in { "map_env", "log_status", "dispatch", "join", "top_catch", "exited" }

\* logEnvStatus has returned: envStatus holds the presence flags.
StatusKnown == pc \in { "dispatch", "join", "exited" } /\ ~threw

\* main reached its verdict and called process.exit itself.
VerdictReached == pc = "exited" /\ ~threw

AllPresent == \A k \in Required : envStatus[k]

AllProbesOk == \A p \in Probes : probe[p] = "ok"

Results == { p \in Probes : probe[p] \in { "ok", "failed" } }

---------------------------------------------------------------------------
(* The claims *)

\* C1: a run of main that reaches the final verdict exits with code 0 if and
\* only if all ten required variables are present and all five probes
\* passed, and with code 1 in every other combination.
C1_ExitCode ==
    VerdictReached =>
        /\ exitCode \in { 0, 1 }
        /\ exitCode = 0 <=> (AllPresent /\ AllProbesOk)

\* C1, witness: the verdict was reached with exactly one variable missing and
\* every probe passed, and the exit code is 1.
C1_Witness ==
    /\ VerdictReached
    /\ Cardinality({ k \in Required : ~envStatus[k] }) = 1
    /\ AllProbesOk
    /\ exitCode = 1

\* C3: no probe's promise is ever rejected, and whenever main has left the
\* join it holds exactly five check results, one per probe, whatever the
\* outcomes were.
C3_FiveResults ==
    /\ \A p \in Probes : probe[p] # "rejected"
    /\ (Dispatched /\ pc # "join") => Cardinality(Results) = 5

\* C3, witness: all five probes failed and main went on to its verdict.
C3_Witness ==
    /\ VerdictReached
    /\ \A p \in Probes : probe[p] = "failed"

C4_FirstWriterWins ==
    \A k \in Keys :
        /\ Truthy(env0[k]) => env[k] = env0[k]
        /\ k \in cliWrote => env[k] = << "c" >>
        /\ Truthy(envBeforeMap[k]) => env[k] = envBeforeMap[k]

\* C4, witness: the .env file was loaded over a variable that was set at
\* start and that the file defines with another value.
C4_Witness ==
    /\ fileSeen = "plain"
    /\ \E k \in Required : env0[k] = Preset /\ env[k] = Preset
    /\ \E k \in Required : env0[k] # Preset /\ env[k] = << "f" >>

\* C5 as stated: the resolver never throws; whatever fails in it, main goes
\* on to the alias mapping and the probes and exits by its own verdict.
C5_ResolverNeverThrows ==
    /\ ~threw
    /\ pc = "exited" => Cardinality(Results) = 5

\* The ways the files of the model spell a value.
NonBlankSpellings == { << "f" >>, << "g" >>, << "\"", "f", "=", "f", "\"" >> }

BlankSpellings == { << "'", " ", "'" >>, << "\"", " ", "\"" >> }

\* The first line of the file that gives key a value gives it one of values.
DefinesWith(lines, key, values) ==
    \E i \in 1..Len(lines) :
        /\ Trim(lines[i]) \in { KeyLine(key, v) : v \in values }
        /\ \A j \in 1..(i - 1) :
              Trim(lines[j]) \notin
                  { KeyLine(key, v) : v \in NonBlankSpellings \cup BlankSpellings }

\* The files that define all ten required keys with a value that is not
\* empty, and those that define them with one that is not whitespace only.
FilesDefiningAllTen ==
    { name \in FileNames :
        \A k \in Required :
            DefinesWith(FileLines(name), k, NonBlankSpellings \cup BlankSpellings) }

FilesDefiningAllTenNonBlank ==
    { name \in FileNames :
        \A k \in Required : DefinesWith(FileLines(name), k, NonBlankSpellings) }

\* C6 as stated: when the CLI source loads nothing the .env file is
\* consulted; and without a link, a file that defines all ten required keys
\* with non-empty values leaves all ten present and zero loaded by the CLI.
C6_FallbackPopulatesAll ==
    /\ (SourcesDone /\ ~netlifyLoaded) => fileSeen # "not_called"
    /\ (StatusKnown /\ ~isLinked /\ fileSeen \in FilesDefiningAllTen)
          => (AllPresent /\ ~netlifyLoaded /\ loadedCount = 0)

\* C6 as amended: the same, for a file whose values are not whitespace only
\* and a start in which no required variable holds a whitespace-only value.
C6_FallbackPopulatesAllNonBlank ==
    /\ (SourcesDone /\ ~netlifyLoaded) => fileSeen # "not_called"
    /\ ( /\ StatusKnown /\ ~isLinked
         /\ fileSeen \in FilesDefiningAllTenNonBlank
         /\ \A k \in Required : Truthy(env0[k]) => Present(env0[k]) )
          => (AllPresent /\ ~netlifyLoaded /\ loadedCount = 0)

\* C6, witness: without a link, the file filled a variable that was unset,
\* and all ten are present.
C6_Witness ==
    /\ pc = "exited" /\ ~threw /\ ~isLinked
    /\ fileSeen = "mixed"
    /\ \E k \in Required : env0[k] = << >> /\ env[k] = << "f", "=", "f" >>
    /\ AllPresent /\ ~netlifyLoaded

\* The alternative name and the canonical name it stands in for.
AliasPairs ==
    { << "STRIPE_PUBLIC_KEY", "STRIPE_PUBLISHABLE_KEY" >>,
      << "STRIPE_PRICE_ID", "STRIPE_PRICE_RESPONSE" >> }

\* C7 as stated: when the presence flags are known, a canonical name that
\* the two sources left absent while its alias was set holds the alias value
\* and is reported present, and one that was set is unchanged.
C7_AliasMapping ==
    StatusKnown =>
        \A pair \in AliasPairs :
            LET alias == pair[1]
                canonical == pair[2]
            IN  /\ (Truthy(envBeforeMap[alias]) /\ ~Truthy(envBeforeMap[canonical]))
                      => (env[canonical] = envBeforeMap[alias] /\ envStatus[canonical])
                /\ Truthy(envBeforeMap[canonical])
                      => env[canonical] = envBeforeMap[canonical]

\* C7 as amended: the same, with the canonical name reported present exactly
\* when the alias value is not whitespace only.
C7_AliasMappingNonBlank ==
    StatusKnown =>
        \A pair \in AliasPairs :
            LET alias == pair[1]
                canonical == pair[2]
            IN  /\ (Truthy(envBeforeMap[alias]) /\ ~Truthy(envBeforeMap[canonical]))
                      => /\ env[canonical] = envBeforeMap[alias]
                         /\ envStatus[canonical] <=> Present(envBeforeMap[alias])
                /\ Truthy(envBeforeMap[canonical])
                      => env[canonical] = envBeforeMap[canonical]

\* C7, witness: the file set an alias, the canonical name was absent, and
\* the canonical name now holds the alias value and is reported present.
C7_Witness ==
    /\ StatusKnown
    /\ fileSeen = "aliases"
    /\ envBeforeMap["STRIPE_PRICE_ID"] = << "f" >>
    /\ ~Truthy(envBeforeMap["STRIPE_PRICE_RESPONSE"])
    /\ env["STRIPE_PRICE_RESPONSE"] = << "f" >>
    /\ envStatus["STRIPE_PRICE_RESPONSE"]

\* C8: once a probe has been dispatched, resolution is over: main stands at
\* or after the join, and the environment is the one resolution produced,
\* the same for every probe.
C8_ResolvedBeforeDispatch ==
    Dispatched =>
        /\ pc \in { "join", "top_catch", "exited" }
        /\ env = mapEnvVars(envBeforeMap)

\* C8, witness: resolution wrote a variable, one probe has settled and
\* another is still in flight.
C8_Witness ==
    /\ pc = "join"
    /\ env # env0
    /\ \E p \in Probes : probe[p] = "ok"
    /\ \E p \in Probes : probe[p] = "pending"

\* C9 as stated: a status query that does not establish the link is followed
\* by the auto-link attempt, first by the remote, then by site name, by id
\* only after the list of sites; and no value is requested without a link.
C9_AutoLink ==
    [][ /\ pc = "status" => (isLinked' \/ pc' = "git_remote")
        /\ pc' = "link_git" => pc = "git_remote"
        /\ pc' = "sites_list" => pc = "link_git"
        /\ pc' = "link_id" => pc = "sites_list"
        /\ pc' = "env_get" => isLinked' ]_vars

\* The canonical name k has an alias that was set at start.
AliasSetFor(k) == \E pair \in AliasPairs : pair[2] = k /\ Truthy(env0[pair[1]])

\* C10 as stated: the .env file is consulted exactly when the CLI source
\* loaded nothing; when it loaded something, a required variable that was
\* absent and that it did not provide is reported Missing and the exit code
\* is 1.
C10_FileOnlyWhenNothingLoaded ==
    /\ SourcesDone => (fileSeen # "not_called" <=> ~netlifyLoaded)
    /\ (StatusKnown /\ netlifyLoaded) =>
          \A k \in Required :
              (~Truthy(env0[k]) /\ k \notin cliWrote)
                  => (~envStatus[k] /\ (pc = "exited" => exitCode = 1))

\* C10 as amended: the same, except that such a variable whose alias was
\* set at start holds the alias value instead.
C10_FileOnlyWhenNothingLoadedAlias ==
    /\ SourcesDone => (fileSeen # "not_called" <=> ~netlifyLoaded)
    /\ (StatusKnown /\ netlifyLoaded) =>
          \A k \in Required :
              (~Truthy(env0[k]) /\ k \notin cliWrote)
                  => IF AliasSetFor(k)
                     THEN \E pair \in AliasPairs : pair[2] = k /\ env[k] = env0[pair[1]]
                     ELSE /\ env[k] = env0[k]
                          /\ ~envStatus[k]
                          /\ pc = "exited" => exitCode = 1

\* C10, witness: the CLI loaded one variable and not another, the file was
\* not consulted, and the run ended with the other Missing and exit code 1.
C10_Witness ==
    /\ pc = "exited" /\ netlifyLoaded /\ fileSeen = "not_called"
    /\ cliWrote # {}
    /\ \E k \in Required : ~Truthy(env0[k]) /\ k \notin cliWrote /\ ~envStatus[k]
    /\ exitCode = 1

===========================================================================
